---- MODULE Spec2Model ----
(***************************************************************************)
(* Model of the path-generation engine of the drone flight simulator       *)
(* (src/app/helpers/utils.ts).                                             *)
(*                                                                         *)
(* The source computes in IEEE doubles.  The model computes in fixed       *)
(* point, every quantity an integer multiple of a named unit, every        *)
(* division rounded to nearest and symmetric in the sign (as IEEE          *)
(* rounding is):                                                           *)
(*   degrees (lat, lng, windDirection)   1/DegScale  degree                *)
(*   distances                           1/KmScale   km  (one metre)       *)
(*   hours (elapsedTimeHours)            1/HourScale hour                  *)
(*   minutes (maxFlightTimeMinutes)      1/MinuteScale minute              *)
(*   windSpeed (km/h)                    1/WindScale km/h                  *)
(*   temperature                         1/DegScale  degree                *)
(*   radians                             1/TrigScale radian                *)
(*   sines, cosines, the fraction t      1/TrigScale                       *)
(* All intermediate values stay below 2^31.                                *)
(***************************************************************************)
EXTENDS Integers, Naturals, Sequences, FiniteSets, TLC

DegScale == 100000
KmScale == 1000
HourScale == 60000
MinuteScale == 1000
WindScale == 100
TrigScale == 10000

\* null (of number | null); the numbers of the model are >= 0 where null can occur
NULL == -1

\* ------------------------------------------------------------------------
\* Fixed-point arithmetic
\* ------------------------------------------------------------------------

Abs(x) == IF x < 0 THEN -x ELSE x

Sgn(x) == IF x < 0 THEN -1 ELSE 1

\* a / b rounded to the nearest integer, b > 0, symmetric in the sign of a
RDiv(a, b) == Sgn(a) * ((Abs(a) + (b \div 2)) \div b)

\* a * b / c rounded, without forming a * b when a is large (b, c > 0)
MulDiv(a, b, c) ==
    Sgn(a) * ((Abs(a) \div c) * b + RDiv((Abs(a) % c) * b, c))

\* Math.floor(a / b), b > 0
FloorDiv(a, b) == a \div b

\* seeded fault: the remainder takes the sign of the divisor
JsMod_Floored(a, n) == a % n

\* a % n of the host language: the remainder takes the sign of the dividend
JsMod(a, n) == IF a >= 0 THEN a % n ELSE -((-a) % n)

RECURSIVE SqrtSearch(_, _, _)
SqrtSearch(n, lo, hi) ==
    IF lo >= hi THEN lo
    ELSE LET mid == (lo + hi + 1) \div 2
         IN IF mid * mid <= n THEN SqrtSearch(n, mid, hi)
                               ELSE SqrtSearch(n, lo, mid - 1)

\* Math.sqrt on integers: nearest integer to the square root of n >= 0
ISqrt(n) ==
    LET f == SqrtSearch(n, 0, 46340)
    IN IF n - f * f > f THEN f + 1 ELSE f

\* ------------------------------------------------------------------------
\* Trigonometry (Math.cos, Math.sin) at TrigScale
\* ------------------------------------------------------------------------

PiT == 31416        \* Math.PI at TrigScale
HalfPiT == PiT \div 2
TwoPiT == 2 * PiT

\* (x * Math.PI) / 180 : degrees at DegScale to radians at TrigScale
toRad(x) == MulDiv(x, 100, 57296)

\* cosine of a radian value in [0, pi/2], Taylor series to x^8
CosQ(r) ==
    LET x2 == RDiv(r * r, TrigScale)
        x4 == RDiv(x2 * x2, TrigScale)
        x6 == RDiv(x4 * x2, TrigScale)
        x8 == MulDiv(x6, x2, TrigScale)
    IN TrigScale - RDiv(x2, 2) + RDiv(x4, 24) - RDiv(x6, 720) + RDiv(x8, 40320)

\* Math.cos of a radian value at TrigScale (any sign, any magnitude)
Cos(r) ==
    LET m == Abs(r) % TwoPiT
        h == IF m > PiT THEN TwoPiT - m ELSE m
    IN IF h <= HalfPiT THEN CosQ(h) ELSE -CosQ(PiT - h)

\* seeded fault: the cosine is taken for the sine
Sin_AsCos(r) == Cos(r)

\* Math.sin of a radian value at TrigScale
Sin(r) == Sgn(r) * Cos(Abs(r) - HalfPiT)

\* ------------------------------------------------------------------------
\* Constants of utils.ts
\* ------------------------------------------------------------------------

DRONE_SPEED_KMPH == 60

KmPerDegScale == 10
KM_PER_DEG_LAT == 1111          \* 111.1 km at KmPerDegScale

InterpolationStep == 500        \* 0.5 km, in metres

TimestampStep == 10             \* seconds added to the clock per waypoint

\* ------------------------------------------------------------------------
\* Helper functions of utils.ts
\* ------------------------------------------------------------------------

Coord(lat, lng) == [lat |-> lat, lng |-> lng]

\* R * toRad(x) in metres for x degrees at DegScale, R = 6371 km
\* (6371 * Math.PI / 180 = 111.19 km per degree).  Within the model's range
\* (arcs below 46 km) 2 * R * Math.sin(toRad(x) / 2) differs from it by less
\* than one metre.
ArcOf(x) == MulDiv(x, 11119, 10000)

\* haversineDistance(p1, p2), in metres.  a is carried as (2R)^2 * a, and
\* R * 2 * atan2(sqrt(a), sqrt(1 - a)) is sqrt((2R)^2 * a) to the metre.
haversineDistance(p1, p2) ==
    LET sLat == ArcOf(p2.lat - p1.lat)
        sLng == ArcOf(p2.lng - p1.lng)
        lat1 == toRad(p1.lat)
        lat2 == toRad(p2.lat)
        a == sLat * sLat
             + MulDiv(MulDiv(sLng * sLng, Cos(lat1), TrigScale),
                      Cos(lat2), TrigScale)
    IN ISqrt(a)

\* The significand of a number, in bits.  A double carries 53; the model
\* carries as many as hold every coordinate (180 degrees at DegScale is
\* below 2^25), so that, as in the program, a coordinate is a number but
\* the difference of two coordinates may have to be rounded.
FloatBits == 25

\* the spacing of the numbers around x
RECURSIVE UlpFrom(_, _)
UlpFrom(x, u) ==
    IF Abs(x) \div u < 2^FloatBits THEN u ELSE UlpFrom(x, 2 * u)

\* the result of an arithmetic operation: x rounded to the nearest number,
\* ties to the even significand
Fl(x) ==
    LET u == UlpFrom(x, 1)
        q == Abs(x) \div u
        r == Abs(x) % u
    IN Sgn(x) * u * (IF 2 * r > u \/ (2 * r = u /\ q % 2 = 1)
                     THEN q + 1 ELSE q)

\* p1 + (p2 - p1) * t for one component, t at TrigScale
Lerp(a, b, t) == Fl(a + Fl(MulDiv(Fl(b - a), t, TrigScale)))

\* interpolatePoint(p1, p2, t), t at TrigScale
interpolatePoint(p1, p2, t) ==
    [lat |-> Lerp(p1.lat, p2.lat, t),
     lng |-> Lerp(p1.lng, p2.lng, t)]

\* getSimulatedData(lat, lng)
getSimulatedData(lat, lng) ==
    [temperature |-> 20 * DegScale + JsMod(lat, 5 * DegScale)
                                   - JsMod(lng, 3 * DegScale),
     windSpeed |-> RDiv((10 * DegScale + JsMod(lat, 3 * DegScale)
                                       + JsMod(lng, 2 * DegScale)) * WindScale,
                        DegScale),
     windDirection |-> FloorDiv(JsMod(lng + lat, 360 * DegScale), DegScale)
                       * DegScale]

\* time.toISOString(): the clock value split into minutes and seconds
toISOString(t) == <<t \div 60, t % 60>>

\* ------------------------------------------------------------------------
\* Inputs of generatePath
\* ------------------------------------------------------------------------

MaxVertices == 3

\* a survey area at 25 N 83 E and one across the equator / prime meridian
SiteA == {Coord(2526300, 8299220), Coord(2526300, 8299518),
          Coord(2527380, 8299220)}
SiteB == {Coord(0, 0), Coord(0, 270), Coord(-500, 300)}

SeqsOver(S) == UNION {[1..n -> S] : n \in 1..MaxVertices}

VertexLists == SeqsOver(SiteA) \cup SeqsOver(SiteB)

\* the wind sliders: 0 to 100 km/h, 0 to 360 degrees
CustomWindSpeeds == {0, 20 * WindScale, 100 * WindScale}
CustomWindDirections == {0, 90 * DegScale, 225 * DegScale}

\* maxFlightTimeMinutes: empty field (null) or a number of minutes
FlightTimes == {NULL, 0, 299, 600, 1201, 2 * MinuteScale}

\* new Date(): seconds within the current hour
ClockReads == {0, 3595}

\* ------------------------------------------------------------------------
\* State of one call of generatePath
\* ------------------------------------------------------------------------

VARIABLES
    initialPoints, useCustomWind, playgroundWindSpeed,
    playgroundWindDirection, maxFlightTimeMinutes,
    waypoints, idealCoords, idCounter, time, totalElapsedTimeHours,
    batteryDepleted, finalWaypointIndex, lastPointInSegment,
    i, j, extraPoints, pc,
    \* held by the caller: the result of an earlier call with the same
    \* arguments (a sequence of at most one result), and the summary
    \* computed from the returned lists (a sequence of at most one summary)
    previous, summary,
    \* one call of a helper function: its arguments p1, p2, t and, once
    \* it has returned, the function's name and value
    helper,
    \* the state of the MapVisualizer component (useState / useRef), the
    \* pending timeouts and file reads of the browser, the path captured by
    \* the latest playback, and the number of handler calls made so far
    error, isLoading, usePlaygroundWind, allWaypoints, staticSimulatedPath,
    visualizedPoints, idealWaypoints, currentPoint, totalPoints, timeoutRef,
    timers, reader, pathFor2DAnimation, userActions

inputs == <<initialPoints, useCustomWind, playgroundWindSpeed,
            playgroundWindDirection, maxFlightTimeMinutes>>

vars == <<initialPoints, useCustomWind, playgroundWindSpeed,
          playgroundWindDirection, maxFlightTimeMinutes,
          waypoints, idealCoords, idCounter, time, totalElapsedTimeHours,
          batteryDepleted, finalWaypointIndex, lastPointInSegment,
          i, j, extraPoints, pc, previous, summary, helper,
          error, isLoading, usePlaygroundWind, allWaypoints,
          staticSimulatedPath, visualizedPoints, idealWaypoints,
          currentPoint, totalPoints, timeoutRef, timers, reader,
          pathFor2DAnimation, userActions>>

\* the component's state, timers and file reads
ui == <<error, isLoading, usePlaygroundWind, allWaypoints,
        staticSimulatedPath, visualizedPoints, idealWaypoints,
        currentPoint, totalPoints, timeoutRef, timers, reader,
        pathFor2DAnimation, userActions>>

\* error === null
NoError == "null"

\* the component after its first render: the useState / useRef initial values
UIConstructed ==
    /\ error = NoError
    /\ isLoading = FALSE
    /\ usePlaygroundWind = FALSE
    /\ allWaypoints = <<>>
    /\ staticSimulatedPath = <<>>
    /\ visualizedPoints = <<>>
    /\ idealWaypoints = <<>>
    /\ currentPoint = NULL
    /\ totalPoints = 0
    /\ timeoutRef = NULL
    /\ timers = {}
    /\ reader = {}
    /\ pathFor2DAnimation = <<>>
    /\ userActions = 0

\* seeded fault: no ceiling is read as a ceiling of 0 minutes
maxFlightTimeHours_NullIsZero ==
    IF maxFlightTimeMinutes # NULL
    THEN RDiv(maxFlightTimeMinutes * HourScale, 60 * MinuteScale)
    ELSE 0

\* maxFlightTimeMinutes !== null ? maxFlightTimeMinutes / 60 : null
maxFlightTimeHours ==
    IF maxFlightTimeMinutes # NULL
    THEN RDiv(maxFlightTimeMinutes * HourScale, 60 * MinuteScale)
    ELSE NULL

\* seeded fault: the id is derived from the clock
Waypoint_ClockId(p, type, data, elapsedTimeHours, clock) ==
    [lat |-> p.lat, lng |-> p.lng,
     id |-> clock,
     type |-> type,
     timestamp |-> toISOString(clock),
     temperature |-> data.temperature,
     windSpeed |-> data.windSpeed,
     windDirection |-> data.windDirection,
     elapsedTimeHours |-> elapsedTimeHours]

\* seeded fault: the id is taken after the increment: ++idCounter
Waypoint_PreIncrement(p, type, data, elapsedTimeHours, clock) ==
    [lat |-> p.lat, lng |-> p.lng,
     id |-> idCounter + 1,
     type |-> type,
     timestamp |-> toISOString(clock),
     temperature |-> data.temperature,
     windSpeed |-> data.windSpeed,
     windDirection |-> data.windDirection,
     elapsedTimeHours |-> elapsedTimeHours]

\* the record pushed by addWaypoint; clock is the Date after setSeconds
Waypoint(p, type, data, elapsedTimeHours, clock) ==
    [lat |-> p.lat, lng |-> p.lng,
     id |-> idCounter,
     type |-> type,
     timestamp |-> toISOString(clock),
     temperature |-> data.temperature,
     windSpeed |-> data.windSpeed,
     windDirection |-> data.windDirection,
     elapsedTimeHours |-> elapsedTimeHours]

\* addWaypoint(p, type, data, elapsedTimeHours), on the clock value now
addWaypoint(now, p, type, data, elapsedTimeHours) ==
    /\ time' = now + TimestampStep
    /\ waypoints' = Append(waypoints,
                           Waypoint(p, type, data, elapsedTimeHours,
                                    now + TimestampStep))
    /\ idCounter' = idCounter + 1

\* seeded fault: the penalty is applied to position-derived wind as well
WindPenaltyFactor_Always(custom, windSpeed) == 100 * WindScale + windSpeed

\* 1 + windSpeed / 100, as a numerator over 100 * WindScale
WindPenaltyFactor(custom, windSpeed) ==
    IF custom THEN 100 * WindScale + windSpeed ELSE 100 * WindScale

\* (dist_km / DRONE_SPEED_KMPH) * windPenaltyFactor, in hours
StepTimeHours(dist, factor) ==
    MulDiv(RDiv(dist * (HourScale \div KmScale), DRONE_SPEED_KMPH),
           factor, 100 * WindScale)

\* seeded fault: the sum is assigned instead of accumulated: = for +=
Accumulate_Assign(total, step) == step

\* totalElapsedTimeHours += step_time_hours
Accumulate(total, step) == total + step

\* seeded fault: the ceiling is compared in minutes: the / 60 is forgotten
Exceeds_Minutes(total) ==
    maxFlightTimeMinutes # NULL
    /\ total > RDiv(maxFlightTimeMinutes * HourScale, MinuteScale)

\* seeded fault: the comparison is inverted: < for >
Exceeds_Inverted(total) ==
    maxFlightTimeHours # NULL /\ total < maxFlightTimeHours

\* seeded fault: the cutoff fires on reaching the ceiling: >= for >
Exceeds_OnReaching(total) ==
    maxFlightTimeHours # NULL /\ total >= maxFlightTimeHours

\* totalElapsedTimeHours > maxFlightTimeHours with a ceiling configured
Exceeds(total) ==
    maxFlightTimeHours # NULL /\ total > maxFlightTimeHours

\* seeded fault: the length is recorded instead of the last index
LastIndex_Length == Len(waypoints)

\* waypoints.length - 1
LastIndex == Len(waypoints) - 1

\* seeded fault: the final assignment is missing
ReturnedIndex_Unassigned == finalWaypointIndex

\* if (!batteryDepleted) finalWaypointIndex = waypoints.length - 1
ReturnedIndex == IF ~batteryDepleted THEN LastIndex ELSE finalWaypointIndex

\* seeded fault: the first vertex is read at index 1 of the 0-based list
FirstVertex_OffByOne ==
    initialPoints[IF Len(initialPoints) >= 2 THEN 2 ELSE 1]

\* initialPoints[0]
FirstVertex == initialPoints[1]

\* seeded fault: Math.round instead of Math.floor
ExtraPoints_Round(idealSegmentDist) ==
    RDiv(idealSegmentDist, InterpolationStep)

\* Math.floor(idealSegmentDist / 0.5)
ExtraPoints(idealSegmentDist) ==
    FloorDiv(idealSegmentDist, InterpolationStep)

\* seeded fault: the segment is closed at the drone's last position
ClosingPoint_Last(p2_ideal, last) == last

\* the point appended to close a segment: p2_ideal, never drift-adjusted
ClosingPoint(p2_ideal, last) == p2_ideal

\* seeded fault: the end vertex is not recorded on the ideal path
IdealAfterClose_Forgotten(coords, p2_ideal) == coords

\* idealCoords.push(p2_ideal)
IdealAfterClose(coords, p2_ideal) == Append(coords, p2_ideal)

\* seeded fault: the fraction is taken over the count: j / extraPoints
Fraction_OverCount(jj, count) == RDiv(jj * TrigScale, count)

\* t = j / (extraPoints + 1), at TrigScale
Fraction(jj, count) == RDiv(jj * TrigScale, count + 1)

\* seeded fault: the next leg is measured from the ideal point
NextReference_Ideal(realisticPoint, idealPoint) == idealPoint

\* lastPointInSegment = realisticPoint
NextReference(realisticPoint, idealPoint) == realisticPoint

\* seeded fault: the operator's direction is ignored
StepData_SimulatedDirection(idealPoint) ==
    LET sim == getSimulatedData(idealPoint.lat, idealPoint.lng)
    IN IF useCustomWind
       THEN [temperature |-> sim.temperature,
             windSpeed |-> playgroundWindSpeed,
             windDirection |-> sim.windDirection]
       ELSE sim

\* the wind data of an interpolated point
StepData(idealPoint) ==
    IF useCustomWind
    THEN [temperature |->
              getSimulatedData(idealPoint.lat, idealPoint.lng).temperature,
          windSpeed |-> playgroundWindSpeed,
          windDirection |-> playgroundWindDirection]
    ELSE getSimulatedData(idealPoint.lat, idealPoint.lng)

\* seeded fault: the drift adds the step's time to the wind speed
DriftKm_Sum(windSpeed, step_time_hours) == windSpeed + step_time_hours

\* drift_km = windSpeed * step_time_hours, in metres
DriftKm(windSpeed, step_time_hours) ==
    RDiv(windSpeed * step_time_hours, (WindScale * HourScale) \div KmScale)

\* the drift-adjusted point of an interpolated step
RealisticPoint(idealPoint, windSpeed, windDirection, step_time_hours) ==
    LET windDirectionRad == toRad(windDirection)
        drift_km == DriftKm(windSpeed, step_time_hours)
        drift_y_km == RDiv(drift_km * Cos(windDirectionRad), TrigScale)
        drift_x_km == RDiv(drift_km * Sin(windDirectionRad), TrigScale)
        km_per_deg_lng ==
            RDiv(KM_PER_DEG_LAT * Cos(toRad(idealPoint.lat)), TrigScale)
        drift_lat == RDiv(drift_y_km * ((DegScale * KmPerDegScale) \div KmScale),
                          KM_PER_DEG_LAT)
        drift_lng == RDiv(drift_x_km * ((DegScale * KmPerDegScale) \div KmScale),
                          km_per_deg_lng)
    IN [lat |-> idealPoint.lat + drift_lat,
        lng |-> idealPoint.lng + drift_lng]

\* no helper call is under way
NoCall == [p1 |-> Coord(0, 0), p2 |-> Coord(0, 0), t |-> 0, result |-> <<>>]

Init ==
    /\ initialPoints \in VertexLists
    /\ useCustomWind \in BOOLEAN
    /\ playgroundWindSpeed \in
           IF useCustomWind THEN CustomWindSpeeds ELSE {20 * WindScale}
    /\ playgroundWindDirection \in
           IF useCustomWind THEN CustomWindDirections ELSE {90 * DegScale}
    /\ maxFlightTimeMinutes \in FlightTimes
    /\ waypoints = <<>>
    /\ idealCoords = <<>>
    /\ idCounter = 0
    /\ time = 0
    /\ totalElapsedTimeHours = 0
    /\ batteryDepleted = FALSE
    /\ finalWaypointIndex = 0
    /\ lastPointInSegment = initialPoints[1]
    /\ i = 0
    /\ j = 0
    /\ extraPoints = 0
    /\ pc = "start"
    /\ previous = <<>>
    /\ summary = <<>>
    /\ helper = NoCall
    /\ UIConstructed

\* lines 63-98: read the clock, emit the first vertex
Start ==
    /\ pc = "start"
    /\ \E now \in ClockReads :
          addWaypoint(now, FirstVertex, "initial",
                      getSimulatedData(FirstVertex.lat, FirstVertex.lng), 0)
    /\ idealCoords' = Append(idealCoords, FirstVertex)
    /\ lastPointInSegment' = FirstVertex
    /\ i' = 0
    /\ pc' = "outer"
    /\ UNCHANGED <<inputs, totalElapsedTimeHours, batteryDepleted,
                   finalWaypointIndex, j, extraPoints>>
    /\ UNCHANGED <<previous, summary, helper, ui>>

\* lines 100-109: the outer loop test and the head of one segment
SegmentBegin ==
    /\ pc = "outer"
    /\ IF i < Len(initialPoints) - 1 /\ ~batteryDepleted
       THEN /\ extraPoints' =
                  ExtraPoints(haversineDistance(initialPoints[i + 1],
                                                initialPoints[i + 2]))
            /\ j' = 1
            /\ pc' = "inner"
       ELSE /\ pc' = "finish"
            /\ UNCHANGED <<j, extraPoints>>
    /\ UNCHANGED <<inputs, waypoints, idealCoords, idCounter, time,
                   totalElapsedTimeHours, batteryDepleted,
                   finalWaypointIndex, lastPointInSegment, i>>
    /\ UNCHANGED <<previous, summary, helper, ui>>

\* lines 109-178: one iteration of the inner loop (or its exit)
InterpolatedStep ==
    /\ pc = "inner"
    /\ IF j <= extraPoints
       THEN LET p1_ideal == initialPoints[i + 1]
                p2_ideal == initialPoints[i + 2]
                t == Fraction(j, extraPoints)
                idealPoint == interpolatePoint(p1_ideal, p2_ideal, t)
                data == StepData(idealPoint)
                step_dist_km == haversineDistance(lastPointInSegment, idealPoint)
                windPenaltyFactor ==
                    WindPenaltyFactor(useCustomWind, data.windSpeed)
                step_time_hours ==
                    StepTimeHours(step_dist_km, windPenaltyFactor)
                total == Accumulate(totalElapsedTimeHours, step_time_hours)
                realisticPoint ==
                    RealisticPoint(idealPoint, data.windSpeed,
                                   data.windDirection, step_time_hours)
            IN /\ idealCoords' = Append(idealCoords, idealPoint)
               /\ totalElapsedTimeHours' = total
               /\ IF Exceeds(total)
                  THEN /\ batteryDepleted' = TRUE
                       /\ finalWaypointIndex' = LastIndex
                       /\ pc' = "close"
                       /\ UNCHANGED <<waypoints, idCounter, time,
                                      lastPointInSegment, j>>
                  ELSE /\ addWaypoint(time, realisticPoint, "interpolated",
                                      data, total)
                       /\ lastPointInSegment' =
                              NextReference(realisticPoint, idealPoint)
                       /\ j' = j + 1
                       /\ pc' = "inner"
                       /\ UNCHANGED <<batteryDepleted, finalWaypointIndex>>
       ELSE /\ pc' = "close"
            /\ UNCHANGED <<waypoints, idealCoords, idCounter, time,
                           totalElapsedTimeHours, batteryDepleted,
                           finalWaypointIndex, lastPointInSegment, j>>
    /\ UNCHANGED <<inputs, i, extraPoints>>
    /\ UNCHANGED <<previous, summary, helper, ui>>

\* lines 180-210: the leg to the segment's end vertex
SegmentClose ==
    /\ pc = "close"
    /\ IF batteryDepleted
       THEN /\ pc' = "finish"
            /\ UNCHANGED <<waypoints, idealCoords, idCounter, time,
                           totalElapsedTimeHours, batteryDepleted,
                           finalWaypointIndex, lastPointInSegment, i>>
       ELSE LET p2_ideal == initialPoints[i + 2]
                endData == getSimulatedData(p2_ideal.lat, p2_ideal.lng)
                final_segment_dist ==
                    haversineDistance(lastPointInSegment, p2_ideal)
                finalWindSpeed ==
                    IF useCustomWind THEN playgroundWindSpeed
                                     ELSE endData.windSpeed
                finalWindPenalty ==
                    WindPenaltyFactor(useCustomWind, finalWindSpeed)
                final_segment_time ==
                    StepTimeHours(final_segment_dist, finalWindPenalty)
                total == Accumulate(totalElapsedTimeHours, final_segment_time)
            IN /\ totalElapsedTimeHours' = total
               /\ IF Exceeds(total)
                  THEN /\ batteryDepleted' = TRUE
                       /\ finalWaypointIndex' = LastIndex
                       /\ pc' = "finish"
                       /\ UNCHANGED <<waypoints, idealCoords, idCounter,
                                      time, lastPointInSegment, i>>
                  ELSE /\ addWaypoint(time,
                                      ClosingPoint(p2_ideal,
                                                   lastPointInSegment),
                                      "initial", endData, total)
                       /\ idealCoords' = IdealAfterClose(idealCoords, p2_ideal)
                       /\ lastPointInSegment' = p2_ideal
                       /\ i' = i + 1
                       /\ pc' = "outer"
                       /\ UNCHANGED <<batteryDepleted, finalWaypointIndex>>
    /\ UNCHANGED <<inputs, j, extraPoints>>
    /\ UNCHANGED <<previous, summary, helper, ui>>

\* lines 212-216: the final index and the return
Finish ==
    /\ pc = "finish"
    /\ finalWaypointIndex' = ReturnedIndex
    /\ pc' = "done"
    /\ UNCHANGED <<inputs, waypoints, idealCoords, idCounter, time,
                   totalElapsedTimeHours, batteryDepleted,
                   lastPointInSegment, i, j, extraPoints>>
    /\ UNCHANGED <<previous, summary, helper, ui>>

Next ==
    \/ Start
    \/ SegmentBegin
    \/ InterpolatedStep
    \/ SegmentClose
    \/ Finish

Spec == Init /\ [][Next]_vars

\* the value returned by generatePath
Returned == pc = "done"

\* return { waypoints, idealCoords, batteryDepleted, finalWaypointIndex }
Result ==
    [waypoints |-> waypoints,
     idealCoords |-> idealCoords,
     batteryDepleted |-> batteryDepleted,
     finalWaypointIndex |-> finalWaypointIndex]

\* lines 51-72: generatePath is called once more with the same arguments;
\* the caller keeps the first result, the locals are fresh
CallAgain ==
    /\ Returned
    /\ previous = <<>>
    /\ previous' = <<Result>>
    /\ waypoints' = <<>>
    /\ idealCoords' = <<>>
    /\ idCounter' = 0
    /\ time' = 0
    /\ totalElapsedTimeHours' = 0
    /\ batteryDepleted' = FALSE
    /\ finalWaypointIndex' = 0
    /\ lastPointInSegment' = initialPoints[1]
    /\ i' = 0
    /\ j' = 0
    /\ extraPoints' = 0
    /\ pc' = "start"
    /\ UNCHANGED <<inputs, summary, helper, ui>>

\* the ceilings not below m; null is no ceiling
CeilingsFrom(m) ==
    IF m = NULL THEN {NULL}
    ELSE {NULL} \cup {n \in FlightTimes \ {NULL} : n >= m}

\* lines 51-72: generatePath is called once more with the same vertices and
\* wind and a ceiling that is not lower; the caller keeps the first result
CallWithHigherCeiling ==
    /\ Returned
    /\ previous = <<>>
    /\ previous' = <<Result>>
    /\ maxFlightTimeMinutes' \in CeilingsFrom(maxFlightTimeMinutes)
    /\ waypoints' = <<>>
    /\ idealCoords' = <<>>
    /\ idCounter' = 0
    /\ time' = 0
    /\ totalElapsedTimeHours' = 0
    /\ batteryDepleted' = FALSE
    /\ finalWaypointIndex' = 0
    /\ lastPointInSegment' = initialPoints[1]
    /\ i' = 0
    /\ j' = 0
    /\ extraPoints' = 0
    /\ pc' = "start"
    /\ UNCHANGED <<initialPoints, useCustomWind, playgroundWindSpeed,
                   playgroundWindDirection, summary, helper, ui>>

\* the calls whose wind, if the operator's, blows from 90 degrees
InitCeilings ==
    /\ Init
    /\ playgroundWindDirection = 90 * DegScale

NextCeilings ==
    \/ Next
    \/ CallWithHigherCeiling

\* two successive calls of generatePath, the second with a ceiling that is
\* not lower
SpecCeilings == InitCeilings /\ [][NextCeilings]_vars

NextTwice ==
    \/ Next
    \/ CallAgain

\* two successive calls of generatePath with the same arguments
SpecTwice == Init /\ [][NextTwice]_vars

\* ------------------------------------------------------------------------
\* calculateMissionSummary
\* ------------------------------------------------------------------------

\* Infinity: above every temperature and wind speed of the model
Infinity == 2147483647

MathMax(a, b) == IF a > b THEN a ELSE b

MathMin(a, b) == IF a < b THEN a ELSE b

\* seeded fault: only the empty list is rejected: length < 1
TooShort_Empty(wps) == Len(wps) < 1

\* waypoints.length < 2
TooShort(wps) == Len(wps) < 2

\* the summary returned for fewer than two waypoints
ZeroSummary ==
    [totalIdealDistance |-> 0,
     totalRealisticDistance |-> 0,
     totalFlightTimeHours |-> 0,
     maxTemperature |-> 0,
     minTemperature |-> 0,
     maxWindSpeed |-> 0,
     minWindSpeed |-> 0]

\* seeded fault: the distance is assigned instead of accumulated: = for +=
AddLeg_Assign(total, a, b) == haversineDistance(a, b)

\* total += haversineDistance(a, b)
AddLeg(total, a, b) == total + haversineDistance(a, b)

\* the four running extrema after looking at one waypoint
Stats(acc, wpData) ==
    [acc EXCEPT
       !.maxTemperature = MathMax(acc.maxTemperature, wpData.temperature),
       !.minTemperature = MathMin(acc.minTemperature, wpData.temperature),
       !.maxWindSpeed = MathMax(acc.maxWindSpeed, wpData.windSpeed),
       !.minWindSpeed = MathMin(acc.minWindSpeed, wpData.windSpeed)]

\* the loop over waypoints[1..], k the 1-based position of waypoints[i]
RECURSIVE WaypointLoop(_, _, _)
WaypointLoop(wps, k, acc) ==
    IF k > Len(wps)
    THEN acc
    ELSE WaypointLoop(wps, k + 1,
             Stats([acc EXCEPT !.totalRealisticDistance =
                        AddLeg(acc.totalRealisticDistance,
                               wps[k - 1], wps[k])],
                   wps[k]))

\* seeded fault: the first waypoint is left out of the extrema
FirstStats_Skipped(acc, firstWp) == acc

\* 'Also check the first waypoint for stats'
FirstStats(acc, firstWp) == Stats(acc, firstWp)

\* the loop over idealCoords[1..]
RECURSIVE IdealLoop(_, _, _)
IdealLoop(coords, k, total) ==
    IF k > Len(coords)
    THEN total
    ELSE IdealLoop(coords, k + 1, AddLeg(total, coords[k - 1], coords[k]))

\* seeded fault: the time of the last but one waypoint is reported
TotalFlightTimeHours_OffByOne(wps) == wps[Len(wps) - 1].elapsedTimeHours

\* waypoints[waypoints.length - 1].elapsedTimeHours
TotalFlightTimeHours(wps) == wps[Len(wps)].elapsedTimeHours

\* calculateMissionSummary(waypoints, idealCoords)
calculateMissionSummary(wps, coords) ==
    IF TooShort(wps)
    THEN ZeroSummary
    ELSE LET start == [totalRealisticDistance |-> 0,
                       maxTemperature |-> -Infinity,
                       minTemperature |-> Infinity,
                       maxWindSpeed |-> -Infinity,
                       minWindSpeed |-> Infinity]
             acc == FirstStats(WaypointLoop(wps, 2, start), wps[1])
         IN [totalIdealDistance |-> IdealLoop(coords, 2, 0),
             totalRealisticDistance |-> acc.totalRealisticDistance,
             totalFlightTimeHours |-> TotalFlightTimeHours(wps),
             maxTemperature |-> acc.maxTemperature,
             minTemperature |-> acc.minTemperature,
             maxWindSpeed |-> acc.maxWindSpeed,
             minWindSpeed |-> acc.minWindSpeed]

\* the summary of the lists at hand is computed
Summarize ==
    /\ Returned
    /\ summary = <<>>
    /\ summary' = <<calculateMissionSummary(waypoints, idealCoords)>>
    /\ UNCHANGED <<inputs, waypoints, idealCoords, idCounter, time,
                   totalElapsedTimeHours, batteryDepleted,
                   finalWaypointIndex, lastPointInSegment, i, j,
                   extraPoints, pc, previous, helper, ui>>

\* the longest list handed to calculateMissionSummary
MaxSummaryLen == 3

ListsOver(S) == UNION {[1..n -> S] : n \in 0..MaxSummaryLen}

\* waypoints at two positions, in frost and in heat, in a breeze and a gale
SampleWaypoints ==
    {[lat |-> p.lat, lng |-> p.lng, id |-> 0, type |-> "initial",
      timestamp |-> toISOString(0),
      temperature |-> tmp, windSpeed |-> wind, windDirection |-> 0,
      elapsedTimeHours |-> 0] :
        p \in {Coord(2526300, 8299220), Coord(2527380, 8299220)},
        tmp \in {-5 * DegScale, 25 * DegScale},
        wind \in {5 * WindScale, 30 * WindScale}}

SampleCoords == {Coord(0, 0), Coord(-500, 300)}

\* calculateMissionSummary is called on arbitrary lists
InitSummary ==
    /\ waypoints \in ListsOver(SampleWaypoints)
    /\ idealCoords \in ListsOver(SampleCoords)
    /\ initialPoints = <<>>
    /\ useCustomWind = FALSE
    /\ playgroundWindSpeed = 20 * WindScale
    /\ playgroundWindDirection = 90 * DegScale
    /\ maxFlightTimeMinutes = NULL
    /\ idCounter = 0
    /\ time = 0
    /\ totalElapsedTimeHours = 0
    /\ batteryDepleted = FALSE
    /\ finalWaypointIndex = 0
    /\ lastPointInSegment = Coord(0, 0)
    /\ i = 0
    /\ j = 0
    /\ extraPoints = 0
    /\ pc = "done"
    /\ previous = <<>>
    /\ summary = <<>>
    /\ helper = NoCall
    /\ UIConstructed

NextSummary == Summarize

SpecSummary == InitSummary /\ [][NextSummary]_vars

NextMission ==
    \/ Next
    \/ Summarize

\* generatePath, then calculateMissionSummary on the lists it returned
SpecMission == Init /\ [][NextMission]_vars

\* ------------------------------------------------------------------------
\* The helper functions called on their own
\* ------------------------------------------------------------------------

\* coordinates on both sides of the equator and of the prime meridian, a
\* cluster around 25 N 83 E, and two points near the date line
HelperPoints ==
    {Coord(2526300, 8299220), Coord(2527380, 8299518),
     Coord(2541234, 8311111), Coord(2500000, 8300000),
     Coord(0, 0), Coord(-500, 300), Coord(-733333, -250001),
     Coord(-8912345, -17500000), Coord(8999999, 17500001),
     Coord(5950000, 9390000), Coord(5951400, 9395500)}

\* the fractions 0, 1/3, 1/2 and 1 at TrigScale
HelperFractions == {0, 3333, 5000, TrigScale}

\* a helper function is about to be called
InitHelpers ==
    /\ \E a \in HelperPoints, b \in HelperPoints, f \in HelperFractions :
          helper = [p1 |-> a, p2 |-> b, t |-> f, result |-> <<>>]
    /\ initialPoints = <<>>
    /\ useCustomWind = FALSE
    /\ playgroundWindSpeed = 20 * WindScale
    /\ playgroundWindDirection = 90 * DegScale
    /\ maxFlightTimeMinutes = NULL
    /\ waypoints = <<>>
    /\ idealCoords = <<>>
    /\ idCounter = 0
    /\ time = 0
    /\ totalElapsedTimeHours = 0
    /\ batteryDepleted = FALSE
    /\ finalWaypointIndex = 0
    /\ lastPointInSegment = Coord(0, 0)
    /\ i = 0
    /\ j = 0
    /\ extraPoints = 0
    /\ pc = "done"
    /\ previous = <<>>
    /\ summary = <<>>
    /\ UIConstructed

\* the helper returns value from the call of fn
Return(fn, value) ==
    /\ helper.result = <<>>
    /\ helper' = [helper EXCEPT !.result = <<[fn |-> fn, value |-> value]>>]
    /\ UNCHANGED <<inputs, waypoints, idealCoords, idCounter, time,
                   totalElapsedTimeHours, batteryDepleted,
                   finalWaypointIndex, lastPointInSegment, i, j,
                   extraPoints, pc, previous, summary, ui>>

CallGetSimulatedData ==
    Return("getSimulatedData",
           getSimulatedData(helper.p1.lat, helper.p1.lng))

\* the arcs the model's haversineDistance covers: 0.3 degrees each way
WithinArcRange(p1, p2) ==
    /\ Abs(p2.lat - p1.lat) <= 3 * (DegScale \div 10)
    /\ Abs(p2.lng - p1.lng) <= 3 * (DegScale \div 10)

CallHaversineDistance ==
    /\ WithinArcRange(helper.p1, helper.p2)
    /\ Return("haversineDistance", haversineDistance(helper.p1, helper.p2))

CallInterpolatePoint ==
    Return("interpolatePoint",
           interpolatePoint(helper.p1, helper.p2, helper.t))

NextHelpers ==
    \/ CallGetSimulatedData
    \/ CallHaversineDistance
    \/ CallInterpolatePoint

SpecHelpers == InitHelpers /\ [][NextHelpers]_vars

\* ------------------------------------------------------------------------
\* The MapVisualizer component: startVisualization, its playback timer, and
\* the two handlers that reset the paths
\* ------------------------------------------------------------------------

\* the record pushed by the component's own addWaypoint (no elapsed time)
LocalWaypoint(p, id, type, data, clock) ==
    [lat |-> p.lat, lng |-> p.lng,
     id |-> id,
     type |-> type,
     timestamp |-> toISOString(clock),
     temperature |-> data.temperature,
     windSpeed |-> data.windSpeed,
     windDirection |-> data.windDirection]

\* addWaypoint of the component's generatePath for the waypoint with the
\* given id: the clock has advanced by 10 s for it and for each earlier one
LocalAdd(now, ideal, p, id, type, data) ==
    [ideal |-> ideal,
     waypoint |-> LocalWaypoint(p, id, type, data,
                                now + TimestampStep * (id + 1))]

\* the wind data of an interpolated point in the component's generatePath;
\* captured is the component state the closure reads
LocalStepData(captured, custom, idealPoint) ==
    IF custom
    THEN [temperature |->
              getSimulatedData(idealPoint.lat, idealPoint.lng).temperature,
          windSpeed |-> captured.playgroundWindSpeed,
          windDirection |-> captured.playgroundWindDirection]
    ELSE getSimulatedData(idealPoint.lat, idealPoint.lng)

\* the drifted waypoint pushed for idealPoint with the wind data
LocalDrifted(now, idealPoint, data, step_time_hours, id) ==
    LocalAdd(now, idealPoint,
             RealisticPoint(idealPoint, data.windSpeed, data.windDirection,
                            step_time_hours),
             id, "interpolated", data)

\* one pass of the inner loop of the component's generatePath
LocalStep(captured, now, custom, idealPoint, step_time_hours, id) ==
    LocalDrifted(now, idealPoint,
                 LocalStepData(captured, custom, idealPoint),
                 step_time_hours, id)

\* the inner loop of the component's generatePath, from index jj on, with
\* idCounter = id: the ideal points and waypoints pushed, in order
RECURSIVE LocalSteps(_, _, _, _, _, _, _, _, _)
LocalSteps(captured, now, custom, p1, p2, count, step_time_hours, jj, id) ==
    IF jj > count
    THEN <<>>
    ELSE <<LocalStep(captured, now, custom,
                     interpolatePoint(p1, p2, Fraction(jj, count)),
                     step_time_hours, id)>>
         \o LocalSteps(captured, now, custom, p1, p2, count,
                       step_time_hours, jj + 1, id + 1)

RECURSIVE LocalSegments(_, _, _, _, _)

\* one pass of the outer loop: the segment s, from p1 to p2, of the given
\* length
LocalSegment(captured, now, custom, s, id, p1, p2, segment_dist_km) ==
    LET count == ExtraPoints(segment_dist_km)
        step_dist_km == RDiv(segment_dist_km, count + 1)
        step_time_hours == StepTimeHours(step_dist_km, 100 * WindScale)
    IN LocalSteps(captured, now, custom, p1, p2, count, step_time_hours,
                  1, id)
       \o <<LocalAdd(now, p2, p2, id + count, "initial",
                     getSimulatedData(p2.lat, p2.lng))>>
       \o LocalSegments(captured, now, custom, s + 1, id + count + 1)

\* the outer loop of the component's generatePath, from segment s on, with
\* idCounter = id
LocalSegments(captured, now, custom, s, id) ==
    IF s > Len(captured.initialPoints) - 1
    THEN <<>>
    ELSE LocalSegment(captured, now, custom, s, id,
                      captured.initialPoints[s],
                      captured.initialPoints[s + 1],
                      haversineDistance(captured.initialPoints[s],
                                        captured.initialPoints[s + 1]))

\* return { waypoints, idealCoords }, from the pairs pushed
LocalResult(pushed) ==
    [waypoints |-> [k \in 1..Len(pushed) |-> pushed[k].waypoint],
     idealCoords |-> [k \in 1..Len(pushed) |-> pushed[k].ideal]]

\* the first vertex of the component's generatePath
LocalFirst(now, first) ==
    LocalAdd(now, first, first, 0, "initial",
             getSimulatedData(first.lat, first.lng))

\* generatePath(useCustomWind) of startVisualization, on the clock value now
LocalGeneratePath(captured, now, custom) ==
    LocalResult(<<LocalFirst(now, captured.initialPoints[1])>>
                \o LocalSegments(captured, now, custom, 1, 1))

\* the coordinate lists the text box and the uploaded files hold
ParsedLists ==
    {<<Coord(2526300, 8299220)>>,
     <<Coord(2526300, 8299220), Coord(2527380, 8299220)>>,
     <<Coord(2526300, 8299220), Coord(2527380, 8299220),
       Coord(2526300, 8299518)>>}

\* the component state a startVisualization closure can capture
Captures ==
    [initialPoints : ParsedLists,
     playgroundWindSpeed : {20 * WindScale},
     playgroundWindDirection : {90 * DegScale}]

\* the results of generatePath(useCustomWind) for each captured state and
\* clock value
GeneratedPaths ==
    [captured \in Captures, now \in ClockReads, custom \in BOOLEAN |->
        LocalGeneratePath(captured, now, custom)]

\* the handle setTimeout returns: not that of a pending timeout, and not
\* the one the ref still holds
FreshHandle(pending) ==
    CHOOSE n \in 1..(Cardinality(pending) + 2) :
        n # timeoutRef /\ \A tm \in pending : tm.handle # n

\* pathFor2DAnimation.slice(0, index + 1)
Shown(path, index) == SubSeq(path, 1, index + 1)

\* step(index) of the playback over path, with the timeouts pending
step(index, path, pending) ==
    IF index >= Len(path)
    THEN /\ currentPoint' = NULL
         /\ timers' = pending
         /\ UNCHANGED <<visualizedPoints, timeoutRef>>
    ELSE /\ visualizedPoints' = Shown(path, index)
         /\ currentPoint' = index
         /\ timeoutRef' = FreshHandle(pending)
         /\ timers' = pending \cup {[handle |-> FreshHandle(pending),
                                     index |-> index + 1,
                                     path |-> path]}

\* the handler calls the model follows before the user leaves the page alone
MaxUserActions == 4

\* seeded fault: a pending timeout is not cleared
Cleared_Kept(pending) == pending

\* if (timeoutRef.current) clearTimeout(timeoutRef.current)
Cleared(pending) ==
    IF timeoutRef # NULL
    THEN {tm \in pending : tm.handle # timeoutRef}
    ELSE pending

\* seeded fault: the guard admits a single point: length < 1
TooFewPoints_Empty == Len(initialPoints) < 1

\* initialPoints.length < 2
TooFewPoints == Len(initialPoints) < 2

\* the component state the closures of this render read
Captured ==
    [initialPoints |-> initialPoints,
     playgroundWindSpeed |-> playgroundWindSpeed,
     playgroundWindDirection |-> playgroundWindDirection]

\* startVisualization from line 340 on, given the results of its calls of
\* generatePath
Play(official, playgroundWaypoints) ==
    /\ error' = NoError
    /\ isLoading' = FALSE
    /\ allWaypoints' = official.waypoints
    /\ idealWaypoints' = official.idealCoords
    /\ staticSimulatedPath' =
           IF usePlaygroundWind THEN official.waypoints ELSE <<>>
    /\ totalPoints' =
           Len(IF usePlaygroundWind THEN playgroundWaypoints
                                    ELSE official.waypoints)
    /\ pathFor2DAnimation' =
           IF usePlaygroundWind THEN playgroundWaypoints
                                ELSE official.waypoints
    /\ step(0,
            IF usePlaygroundWind THEN playgroundWaypoints
                                 ELSE official.waypoints,
            Cleared(timers))

\* startVisualization, lines 334-463 (each generatePath call reads the clock)
StartVisualization ==
    /\ userActions < MaxUserActions
    /\ userActions' = userActions + 1
    /\ IF TooFewPoints
       THEN /\ error' = "Need at least 2 points to start visualization."
            /\ UNCHANGED <<isLoading, allWaypoints, staticSimulatedPath,
                           visualizedPoints, idealWaypoints, currentPoint,
                           totalPoints, timeoutRef, timers,
                           pathFor2DAnimation>>
       ELSE \E now1 \in ClockReads, now2 \in ClockReads :
              /\ now1 <= now2
              /\ Play(GeneratedPaths[Captured, now1, FALSE],
                      GeneratedPaths[Captured, now2, TRUE].waypoints)
    /\ UNCHANGED <<usePlaygroundWind, reader>>
    /\ UNCHANGED <<inputs, waypoints, idealCoords, idCounter, time,
                   totalElapsedTimeHours, batteryDepleted,
                   finalWaypointIndex, lastPointInSegment, i, j,
                   extraPoints, pc, previous, summary, helper>>

\* a timeout set at lines 457-459 fires: step(index + 1)
TimerFires ==
    /\ \E tm \in timers : step(tm.index, tm.path, timers \ {tm})
    /\ UNCHANGED <<error, isLoading, usePlaygroundWind, allWaypoints,
                   staticSimulatedPath, idealWaypoints, totalPoints,
                   reader, pathFor2DAnimation, userActions>>
    /\ UNCHANGED <<inputs, waypoints, idealCoords, idCounter, time,
                   totalElapsedTimeHours, batteryDepleted,
                   finalWaypointIndex, lastPointInSegment, i, j,
                   extraPoints, pc, previous, summary, helper>>

\* resetPaths, lines 233-242: the timeout and the ref are left as they are
resetPaths ==
    /\ visualizedPoints' = <<>>
    /\ allWaypoints' = <<>>
    /\ staticSimulatedPath' = <<>>
    /\ idealWaypoints' = <<>>
    /\ totalPoints' = 0
    /\ currentPoint' = NULL

\* handleParseCoordinates, lines 244-278: the text holds no pair, or the
\* pairs of one of the lists (every match of the pattern is a number)
HandleParseCoordinates ==
    /\ userActions < MaxUserActions
    /\ userActions' = userActions + 1
    /\ resetPaths
    /\ \/ /\ error' = "No valid 'lat, lng' pairs found. Please use the format: 25.1, 82.1"
          /\ initialPoints' = <<>>
       \/ \E newPoints \in ParsedLists :
             /\ error' = NoError
             /\ initialPoints' = newPoints
    /\ isLoading' = FALSE
    /\ UNCHANGED <<usePlaygroundWind, timeoutRef, timers, reader,
                   pathFor2DAnimation>>
    /\ UNCHANGED <<useCustomWind, playgroundWindSpeed,
                   playgroundWindDirection, maxFlightTimeMinutes,
                   waypoints, idealCoords, idCounter, time,
                   totalElapsedTimeHours, batteryDepleted,
                   finalWaypointIndex, lastPointInSegment, i, j,
                   extraPoints, pc, previous, summary, helper>>

\* handleFileUpload, lines 280-332, with a file chosen: the read is pending
HandleFileUpload ==
    /\ userActions < MaxUserActions
    /\ userActions' = userActions + 1
    /\ error' = NoError
    /\ resetPaths
    /\ isLoading' = TRUE
    /\ reader' = reader \cup {userActions + 1}
    /\ UNCHANGED <<usePlaygroundWind, timeoutRef, timers,
                   pathFor2DAnimation>>
    /\ UNCHANGED <<inputs, waypoints, idealCoords, idCounter, time,
                   totalElapsedTimeHours, batteryDepleted,
                   finalWaypointIndex, lastPointInSegment, i, j,
                   extraPoints, pc, previous, summary, helper>>

\* what a pending read leaves unchanged when it completes
ReadDone(r) ==
    /\ reader' = reader \ {r}
    /\ isLoading' = FALSE
    /\ UNCHANGED <<usePlaygroundWind, allWaypoints, staticSimulatedPath,
                   visualizedPoints, idealWaypoints, currentPoint,
                   totalPoints, timeoutRef, timers, pathFor2DAnimation,
                   userActions>>
    /\ UNCHANGED <<useCustomWind, playgroundWindSpeed,
                   playgroundWindDirection, maxFlightTimeMinutes,
                   waypoints, idealCoords, idCounter, time,
                   totalElapsedTimeHours, batteryDepleted,
                   finalWaypointIndex, lastPointInSegment, i, j,
                   extraPoints, pc, previous, summary, helper>>

\* reader.onload, lines 290-324: an array of coordinates, or a file that
\* is refused
ReaderOnload ==
    \E r \in reader :
       /\ \/ \E newPoints \in ParsedLists :
                /\ initialPoints' = newPoints
                /\ UNCHANGED error
          \/ \E refusal \in
                {"JSON file is an array, but items are not valid coordinates.",
                 "Invalid JSON format. Expected an array of coordinates.",
                 "Failed to parse JSON file. Make sure it is valid JSON."} :
                /\ error' = refusal
                /\ UNCHANGED initialPoints
       /\ ReadDone(r)

\* reader.onerror, lines 326-329
ReaderOnerror ==
    \E r \in reader :
       /\ error' = "Failed to read the file."
       /\ UNCHANGED initialPoints
       /\ ReadDone(r)

\* the playground checkbox, line 796
SetUsePlaygroundWind ==
    /\ \E checked \in BOOLEAN :
          /\ checked # usePlaygroundWind
          /\ usePlaygroundWind' = checked
    /\ UNCHANGED <<error, isLoading, allWaypoints, staticSimulatedPath,
                   visualizedPoints, idealWaypoints, currentPoint,
                   totalPoints, timeoutRef, timers, reader,
                   pathFor2DAnimation, userActions>>
    /\ UNCHANGED <<inputs, waypoints, idealCoords, idCounter, time,
                   totalElapsedTimeHours, batteryDepleted,
                   finalWaypointIndex, lastPointInSegment, i, j,
                   extraPoints, pc, previous, summary, helper>>

\* the component after its first render: no points, the sliders at 20 km/h
\* and 90 degrees; no call of the utils.ts generatePath is in progress
InitUI ==
    /\ initialPoints = <<>>
    /\ useCustomWind = FALSE
    /\ playgroundWindSpeed = 20 * WindScale
    /\ playgroundWindDirection = 90 * DegScale
    /\ maxFlightTimeMinutes = NULL
    /\ waypoints = <<>>
    /\ idealCoords = <<>>
    /\ idCounter = 0
    /\ time = 0
    /\ totalElapsedTimeHours = 0
    /\ batteryDepleted = FALSE
    /\ finalWaypointIndex = 0
    /\ lastPointInSegment = Coord(0, 0)
    /\ i = 0
    /\ j = 0
    /\ extraPoints = 0
    /\ pc = "done"
    /\ previous = <<>>
    /\ summary = <<>>
    /\ helper = NoCall
    /\ UIConstructed

NextUI ==
    \/ StartVisualization
    \/ TimerFires
    \/ HandleParseCoordinates
    \/ HandleFileUpload
    \/ ReaderOnload
    \/ ReaderOnerror
    \/ SetUsePlaygroundWind

SpecUI == InitUI /\ [][NextUI]_vars

\* the browser runs every timeout that stays pending, and completes
\* every file read
SpecUIFair ==
    /\ SpecUI
    /\ WF_vars(TimerFires)
    /\ WF_vars(ReaderOnload \/ ReaderOnerror)

\* ------------------------------------------------------------------------
\* Properties of generatePath
\* ------------------------------------------------------------------------

\* t hours (at HourScale) are more than maxFlightTimeMinutes / 60, stated
\* on the inputs: t / HourScale > minutes / (60 * MinuteScale)
OverCeiling(t) ==
    /\ maxFlightTimeMinutes # NULL
    /\ t * 60 > maxFlightTimeMinutes * (HourScale \div MinuteScale)

\* the step about to be taken computes a leg and adds its time
LegPending ==
    \/ pc = "inner" /\ j <= extraPoints
    \/ pc = "close" /\ ~batteryDepleted

InitialPositions == {k \in 1..Len(waypoints) : waypoints[k].type = "initial"}

InterpolatedPositions ==
    {k \in 1..Len(waypoints) : waypoints[k].type = "interpolated"}

\* the position in waypoints of the s-th 'initial' waypoint
NthInitial(s) ==
    CHOOSE k \in InitialPositions :
        Cardinality({m \in InitialPositions : m < k}) = s - 1

Vertices == {initialPoints[k] : k \in 1..Len(initialPoints)}

WindInRange ==
    useCustomWind =>
        playgroundWindSpeed >= 0 /\ playgroundWindSpeed <= 100 * WindScale

\* C1: once the accumulated flight time exceeds the ceiling, batteryDepleted
\* is true, and from a state with batteryDepleted no step appends to
\* waypoints or to idealCoords, the flag stays set, and control only moves
\* to the end of the call (both loops have stopped).
C1_CutoffStopsAppending ==
    [][ /\ OverCeiling(totalElapsedTimeHours') => batteryDepleted'
        /\ batteryDepleted =>
              /\ batteryDepleted'
              /\ waypoints' = waypoints
              /\ idealCoords' = idealCoords
              /\ pc' \in {"finish", "done"} ]_vars

\* a call cut off inside the inner loop has returned
C1_Witness ==
    /\ Returned
    /\ batteryDepleted
    /\ Len(idealCoords) = Len(waypoints) + 1
    /\ Len(waypoints) >= 2

\* C2: with a ceiling >= 0 every waypoint has elapsedTimeHours within the
\* ceiling; a leg whose accumulated time stays within the ceiling (also
\* exactly on it) is appended with that time, a leg that exceeds it is not,
\* and waypoints then stays as it was before the failing leg.
C2_WaypointsWithinCeiling ==
    /\ [](\A k \in 1..Len(waypoints) :
             ~OverCeiling(waypoints[k].elapsedTimeHours))
    /\ [][ LegPending =>
             IF OverCeiling(totalElapsedTimeHours')
             THEN waypoints' = waypoints
             ELSE /\ Len(waypoints') = Len(waypoints) + 1
                  /\ SubSeq(waypoints', 1, Len(waypoints)) = waypoints
                  /\ waypoints'[Len(waypoints')].elapsedTimeHours
                         = totalElapsedTimeHours' ]_vars

\* a leg landed exactly on the ceiling and its waypoint is in the result
C2_Witness ==
    /\ Returned
    /\ maxFlightTimeMinutes # NULL
    /\ Len(waypoints) >= 2
    /\ waypoints[Len(waypoints)].elapsedTimeHours * 60
           = maxFlightTimeMinutes * (HourScale \div MinuteScale)

\* the accumulated time went over the ceiling on the way to the second
\* vertex (the outer loop is still on its first segment)
CeilingBeforeSecondVertex ==
    /\ Len(initialPoints) >= 2
    /\ i = 0
    /\ OverCeiling(totalElapsedTimeHours)

\* C3 as stated: cut off before the second vertex, the result has
\* batteryDepleted and finalWaypointIndex < waypoints.length - 1.
C3_Original ==
    (Returned /\ CeilingBeforeSecondVertex) =>
        /\ batteryDepleted
        /\ finalWaypointIndex < Len(waypoints) - 1

\* C3 (amended): cut off before the second vertex, the result has
\* batteryDepleted and finalWaypointIndex = waypoints.length - 1, the index
\* of the last waypoint appended, and no 'initial' waypoint but the first.
C3_CutoffBeforeSecondVertex ==
    (Returned /\ CeilingBeforeSecondVertex) =>
        /\ batteryDepleted
        /\ finalWaypointIndex = Len(waypoints) - 1
        /\ InitialPositions = {1}

\* a call cut off before its second vertex, after some interpolated points
C3_Witness ==
    /\ Returned
    /\ CeilingBeforeSecondVertex
    /\ batteryDepleted
    /\ InterpolatedPositions # {}

\* C4: on return finalWaypointIndex is the index of the last waypoint.
C4_FinalIndexIsLast ==
    Returned => finalWaypointIndex = Len(waypoints) - 1

\* a depleted call has returned with several waypoints, the last of them
\* a vertex
C4_Witness ==
    /\ Returned
    /\ batteryDepleted
    /\ Len(waypoints) >= 3
    /\ waypoints[Len(waypoints)].type = "initial"

\* C5: with the wind speed in 0..100 km/h, elapsedTimeHours never decreases
\* along waypoints.
C5_ElapsedMonotonic ==
    WindInRange =>
        \A k \in 1..(Len(waypoints) - 1) :
            waypoints[k].elapsedTimeHours <= waypoints[k + 1].elapsedTimeHours

\* a returned trajectory over two segments under the strongest custom wind
\* whose second segment's legs are shorter than the first's
C5_Witness ==
    /\ Returned
    /\ useCustomWind
    /\ playgroundWindSpeed = 100 * WindScale
    /\ Len(waypoints) >= 4
    /\ Cardinality(InitialPositions) = 3
    /\ waypoints[Len(waypoints)].elapsedTimeHours
           - waypoints[Len(waypoints) - 1].elapsedTimeHours
         < waypoints[2].elapsedTimeHours

\* C6: waypoints[i].id = i (0-based) and the id counter is the length.
C6_IdsContiguous ==
    /\ idCounter = Len(waypoints)
    /\ \A k \in 1..Len(waypoints) : waypoints[k].id = k - 1

\* a truncated trajectory with several ids
C6_Witness ==
    /\ Returned
    /\ batteryDepleted
    /\ Len(waypoints) >= 3
    /\ waypoints[Len(waypoints)].type = "interpolated"

\* C7: once the call has passed its first lines, waypoints is non-empty and
\* its first element is 'initial', at the first input vertex, at time 0.
C7_FirstWaypoint ==
    pc # "start" =>
        /\ Len(waypoints) >= 1
        /\ waypoints[1].type = "initial"
        /\ waypoints[1].lat = initialPoints[1].lat
        /\ waypoints[1].lng = initialPoints[1].lng
        /\ waypoints[1].elapsedTimeHours = 0

\* under custom wind and a ceiling of zero the call returns just the first
\* vertex of a list that has a different second vertex
C7_Witness ==
    /\ Returned
    /\ useCustomWind
    /\ playgroundWindSpeed > 0
    /\ maxFlightTimeMinutes = 0
    /\ Len(initialPoints) >= 2
    /\ initialPoints[2] # initialPoints[1]
    /\ Len(waypoints) = 1

\* C8: every 'initial' waypoint lies exactly on an input vertex.
C8_InitialOnVertex ==
    \A k \in InitialPositions :
        Coord(waypoints[k].lat, waypoints[k].lng) \in Vertices

\* a vertex was appended after an interpolated waypoint that drifted off
\* the ideal path
C8_Witness ==
    \E k \in InitialPositions :
        /\ k >= 3
        /\ waypoints[k - 1].type = "interpolated"
        /\ Coord(waypoints[k - 1].lat, waypoints[k - 1].lng) # idealCoords[k - 1]

\* p is the j-th of n interpolation points between a and b, on the exact
\* fraction j / (n + 1), within the rounding of the coordinates
IsInterpolation(p, a, b, jj, n) ==
    /\ Abs((p.lat - a.lat) * (n + 1) - (b.lat - a.lat) * jj) <= n + 1
    /\ Abs((p.lng - a.lng) * (n + 1) - (b.lng - a.lng) * jj) <= n + 1

\* the number of interpolation points of a segment of d metres, stated on
\* the distance: n * 0.5 km <= d < (n + 1) * 0.5 km
IsPointCount(n, d) ==
    n * InterpolationStep <= d /\ d < (n + 1) * InterpolationStep

MaxPointCount == 4

IsIdealPoint(p) ==
    \/ p \in Vertices
    \/ \E s \in 1..(Len(initialPoints) - 1) :
          \E n \in 1..MaxPointCount : \E jj \in 1..n :
              /\ IsPointCount(n, haversineDistance(initialPoints[s],
                                                   initialPoints[s + 1]))
              /\ IsInterpolation(p, initialPoints[s], initialPoints[s + 1],
                                 jj, n)

\* C9: idealCoords has as many entries as waypoints or one more, and each
\* entry is an input vertex or an interpolation point of a segment.
C9_IdealCoordsLength ==
    /\ Len(idealCoords) \in {Len(waypoints), Len(waypoints) + 1}
    /\ \A k \in 1..Len(idealCoords) : IsIdealPoint(idealCoords[k])

\* a depleted return with equal lengths after a closed segment (cut off on
\* a closing leg), the drone having drifted
C9_Witness ==
    /\ Returned
    /\ batteryDepleted
    /\ Len(idealCoords) = Len(waypoints)
    /\ Cardinality(InitialPositions) >= 2
    /\ \E k \in InterpolatedPositions :
          Coord(waypoints[k].lat, waypoints[k].lng) # idealCoords[k]

\* C10: in a call that is not cut off, every vertex is an 'initial'
\* waypoint and the number of 'interpolated' waypoints between those of
\* consecutive vertices p1, p2 is floor(haversineDistance(p1, p2) / 0.5).
C10_InterpolationCount ==
    (Returned /\ ~batteryDepleted) =>
        /\ Cardinality(InitialPositions) = Len(initialPoints)
        /\ \A s \in 1..(Len(initialPoints) - 1) :
              IsPointCount(NthInitial(s + 1) - NthInitial(s) - 1,
                           haversineDistance(initialPoints[s],
                                             initialPoints[s + 1]))

\* a full trajectory with a segment under 500 m (no interpolated waypoint)
\* after a segment with two
C10_Witness ==
    /\ Returned
    /\ ~batteryDepleted
    /\ Len(initialPoints) = 3
    /\ haversineDistance(initialPoints[2], initialPoints[3]) < InterpolationStep
    /\ initialPoints[2] # initialPoints[3]
    /\ InitialPositions = {1, 4, 5}

\* the last entry of a non-empty list
Last(seq) == seq[Len(seq)]

\* C11: an inner-loop iteration with index j of a segment with count
\* interpolation points pushes the ideal point at the fraction j/(count+1)
\* of the segment, 1 <= j <= count (so neither endpoint), and farther from
\* the segment's first vertex than the point pushed for j - 1, and nearer
\* than the second vertex.
C11_FractionsAscend ==
    [][ (pc = "inner" /\ j <= extraPoints) =>
          LET p1 == initialPoints[i + 1]
              p2 == initialPoints[i + 2]
              p == Last(idealCoords')
          IN /\ Len(idealCoords') = Len(idealCoords) + 1
             /\ 1 <= j /\ j < extraPoints + 1
             /\ IsInterpolation(p, p1, p2, j, extraPoints)
             /\ p # p1 /\ p # p2
             /\ haversineDistance(p1, Last(idealCoords))
                    < haversineDistance(p1, p)
             /\ haversineDistance(p1, p) < haversineDistance(p1, p2) ]_vars

\* the last of three interpolation steps of one segment has been taken
C11_Witness ==
    /\ pc = "inner"
    /\ extraPoints >= 2
    /\ j = extraPoints + 1
    /\ Len(idealCoords) >= extraPoints + 1

\* the coordinates of a waypoint
Position(w) == [lat |-> w.lat, lng |-> w.lng]

\* the point the pending leg flies to: the ideal point pushed by the step,
\* or the segment's end vertex
LegTarget(coords) ==
    IF pc = "inner" THEN Last(coords) ELSE initialPoints[i + 2]

\* C12: the reference point of the next leg is the position of the most
\* recently appended waypoint (the drift-adjusted one after an interpolated
\* waypoint, the vertex itself after an 'initial' one), and the time a leg
\* adds is the time of the distance from that position to the leg's target.
C12_LegFromLastWaypoint ==
    /\ [](pc # "start" => lastPointInSegment = Position(Last(waypoints)))
    /\ [][ LegPending =>
             totalElapsedTimeHours' - totalElapsedTimeHours =
                 StepTimeHours(
                     haversineDistance(Position(Last(waypoints)),
                                       LegTarget(idealCoords')),
                     WindPenaltyFactor(useCustomWind, playgroundWindSpeed)) ]_vars

\* a leg has been flown from an interpolated waypoint that the wind moved
\* off the ideal path, and a later segment has started from its vertex
C12_Witness ==
    /\ pc = "inner"
    /\ i = 1
    /\ lastPointInSegment = initialPoints[2]
    /\ \E k \in InterpolatedPositions :
          /\ k < Len(waypoints)
          /\ Position(waypoints[k]) # idealCoords[k]
          /\ waypoints[k + 1].elapsedTimeHours > waypoints[k].elapsedTimeHours

\* the hours added by the step, in units of 1/HourScale hour: at 60 km/h
\* one such unit is the time of one metre
AddedTime == totalElapsedTimeHours' - totalElapsedTimeHours

C14_InterpolatedData ==
    \A k \in InterpolatedPositions :
        LET w == waypoints[k]
            sim == getSimulatedData(idealCoords[k].lat, idealCoords[k].lng)
        IN /\ w.temperature = sim.temperature
           /\ w.windSpeed =
                  IF useCustomWind THEN playgroundWindSpeed ELSE sim.windSpeed
           /\ w.windDirection =
                  IF useCustomWind THEN playgroundWindDirection
                                   ELSE sim.windDirection

\* an interpolated waypoint off its ideal point carries the operator's wind,
\* which is not the wind simulated there
C14_Witness ==
    /\ useCustomWind
    /\ \E k \in InterpolatedPositions :
          LET sim == getSimulatedData(idealCoords[k].lat, idealCoords[k].lng)
          IN /\ Position(waypoints[k]) # idealCoords[k]
             /\ waypoints[k].windSpeed # sim.windSpeed
             /\ waypoints[k].windDirection # sim.windDirection

\* C15: with useCustomWind and an operator wind speed of 0, every waypoint
\* has the coordinates of the ideal point at the same index.
C15_NoWindNoDrift ==
    (useCustomWind /\ playgroundWindSpeed = 0) =>
        \A k \in 1..Len(waypoints) : Position(waypoints[k]) = idealCoords[k]

\* a run without wind has returned a path with interpolated waypoints
C15_Witness ==
    /\ useCustomWind
    /\ playgroundWindSpeed = 0
    /\ Returned
    /\ Cardinality(InterpolatedPositions) >= 2

\* a waypoint without its timestamp
Untimed(w) ==
    [lat |-> w.lat, lng |-> w.lng, id |-> w.id, type |-> w.type,
     temperature |-> w.temperature, windSpeed |-> w.windSpeed,
     windDirection |-> w.windDirection,
     elapsedTimeHours |-> w.elapsedTimeHours]

\* C16: two calls with the same vertices, wind configuration and ceiling,
\* each reading the clock on its own, return waypoint lists of the same
\* length that agree in every field but the timestamp, the same idealCoords,
\* the same batteryDepleted and the same finalWaypointIndex.
C16_Deterministic ==
    (Returned /\ previous # <<>>) =>
        LET first == previous[1]
        IN /\ Len(first.waypoints) = Len(waypoints)
           /\ \A k \in 1..Len(waypoints) :
                  Untimed(first.waypoints[k]) = Untimed(waypoints[k])
           /\ first.idealCoords = idealCoords
           /\ first.batteryDepleted = batteryDepleted
           /\ first.finalWaypointIndex = finalWaypointIndex

\* the second call has returned a path with interpolated waypoints and read
\* another clock value than the first
C16_Witness ==
    /\ Returned
    /\ previous # <<>>
    /\ Len(waypoints) >= 3
    /\ previous[1].waypoints[1].timestamp # waypoints[1].timestamp

\* ------------------------------------------------------------------------
\* Properties of calculateMissionSummary
\* ------------------------------------------------------------------------

SummaryFields ==
    {"totalIdealDistance", "totalRealisticDistance", "totalFlightTimeHours",
     "maxTemperature", "minTemperature", "maxWindSpeed", "minWindSpeed"}

\* C17: for a list of 0 or 1 waypoints the summary has exactly the seven
\* fields and each of them is 0, whatever idealCoords holds.
C17_ShortListZeroSummary ==
    (summary # <<>> /\ Len(waypoints) < 2) =>
        /\ DOMAIN summary[1] = SummaryFields
        /\ \A f \in SummaryFields : summary[1][f] = 0

\* a single waypoint in frost and an ideal path of three points were
\* summarised
C17_Witness ==
    /\ summary # <<>>
    /\ Len(waypoints) = 1
    /\ waypoints[1].temperature < 0
    /\ Len(idealCoords) = 3
    /\ idealCoords[1] # idealCoords[2]

\* C18: for two or more waypoints each of maxTemperature, minTemperature,
\* maxWindSpeed and minWindSpeed is the value of some waypoint and bounds
\* the values of all waypoints, the first one included.
C18_ExtremaOverAllWaypoints ==
    (summary # <<>> /\ Len(waypoints) >= 2) =>
        LET all == 1..Len(waypoints)
            r == summary[1]
        IN /\ \E k \in all : waypoints[k].temperature = r.maxTemperature
           /\ \E k \in all : waypoints[k].temperature = r.minTemperature
           /\ \E k \in all : waypoints[k].windSpeed = r.maxWindSpeed
           /\ \E k \in all : waypoints[k].windSpeed = r.minWindSpeed
           /\ \A k \in all :
                 /\ r.minTemperature <= waypoints[k].temperature
                 /\ waypoints[k].temperature <= r.maxTemperature
                 /\ r.minWindSpeed <= waypoints[k].windSpeed
                 /\ waypoints[k].windSpeed <= r.maxWindSpeed

\* the lowest temperature and the highest wind speed occur at the first
\* waypoint only
C18_Witness ==
    /\ summary # <<>>
    /\ Len(waypoints) = 3
    /\ \A k \in 2..3 :
          /\ waypoints[1].temperature < waypoints[k].temperature
          /\ waypoints[1].windSpeed > waypoints[k].windSpeed
    /\ summary[1].minTemperature < 0

\* the length of a path: the sum of the distances of its consecutive pairs
RECURSIVE PathLength(_)
PathLength(points) ==
    IF Len(points) < 2
    THEN 0
    ELSE PathLength(SubSeq(points, 1, Len(points) - 1))
         + haversineDistance(points[Len(points) - 1], points[Len(points)])

\* C19: for two or more waypoints totalRealisticDistance is the length of
\* the path through the waypoints and totalIdealDistance is the length of
\* the path through idealCoords (0 for fewer than two of them), whatever
\* the other list holds.
C19_DistancesAreSums ==
    (summary # <<>> /\ Len(waypoints) >= 2) =>
        /\ summary[1].totalRealisticDistance = PathLength(waypoints)
        /\ summary[1].totalIdealDistance = PathLength(idealCoords)
        /\ Len(idealCoords) < 2 => summary[1].totalIdealDistance = 0

\* three waypoints with two legs of positive length and an ideal path of
\* another length were summarised
C19_Witness ==
    /\ summary # <<>>
    /\ Len(waypoints) = 3
    /\ waypoints[1].lat # waypoints[2].lat
    /\ waypoints[2].lat # waypoints[3].lat
    /\ Len(idealCoords) = 2
    /\ summary[1].totalIdealDistance > 0
    /\ summary[1].totalRealisticDistance > summary[1].totalIdealDistance

\* C20: for two or more waypoints totalFlightTimeHours is the
\* elapsedTimeHours of the last waypoint, and for the lists returned by
\* generatePath under a ceiling it is not more than maxFlightTimeMinutes / 60.
C20_FlightTimeIsLastElapsed ==
    (summary # <<>> /\ Len(waypoints) >= 2) =>
        /\ summary[1].totalFlightTimeHours = Last(waypoints).elapsedTimeHours
        /\ ~OverCeiling(summary[1].totalFlightTimeHours)

\* a path cut off by the ceiling after some legs was summarised
C20_Witness ==
    /\ summary # <<>>
    /\ maxFlightTimeMinutes # NULL
    /\ batteryDepleted
    /\ Len(waypoints) >= 3
    /\ summary[1].totalFlightTimeHours
           > waypoints[Len(waypoints) - 1].elapsedTimeHours

\* ------------------------------------------------------------------------
\* Properties of the helper functions
\* ------------------------------------------------------------------------

\* the helper call has returned from fn
ReturnedFrom(fn) ==
    helper.result # <<>> /\ helper.result[1].fn = fn

\* r is the remainder of x by m > 0 under truncating division: smaller than
\* m in magnitude, of the sign of x or zero, and x - r a multiple of m
IsTruncMod(r, x, m) ==
    /\ Abs(r) < m
    /\ x >= 0 => r >= 0
    /\ x <= 0 => r <= 0
    /\ (x - r) % m = 0

\* the most whole multiples of m in lat, lng or lng + lat (at most 270
\* degrees in magnitude)
MaxMultiples(m) == (270 * DegScale) \div m + 1

TruncMod(x, m) ==
    CHOOSE r \in {x - m * k : k \in (-MaxMultiples(m))..MaxMultiples(m)} :
        IsTruncMod(r, x, m)

\* C22: getSimulatedData(lat, lng) returns temperature = 20 + lat mod 5
\* - lng mod 3, windSpeed = 10 + lat mod 3 + lng mod 2 and windDirection =
\* floor((lng + lat) mod 360), mod being the truncating remainder; for a
\* negative sum lng + lat the direction lies in [-360, 0].
C22_SimulatedData ==
    ReturnedFrom("getSimulatedData") =>
        LET lat == helper.p1.lat
            lng == helper.p1.lng
            data == helper.result[1].value
        IN /\ data.temperature =
                  20 * DegScale + TruncMod(lat, 5 * DegScale)
                                - TruncMod(lng, 3 * DegScale)
           /\ 2 * Abs(data.windSpeed * (DegScale \div WindScale)
                      - (10 * DegScale + TruncMod(lat, 3 * DegScale)
                                       + TruncMod(lng, 2 * DegScale)))
                  <= DegScale \div WindScale
           /\ data.windDirection % DegScale = 0
           /\ data.windDirection <= TruncMod(lng + lat, 360 * DegScale)
           /\ TruncMod(lng + lat, 360 * DegScale)
                  < data.windDirection + DegScale
           /\ lng + lat < 0 =>
                  /\ -360 * DegScale <= data.windDirection
                  /\ data.windDirection <= 0

\* the data of a point south of the equator and west of the prime meridian
\* has been computed, with both remainders of the latitude negative
C22_Witness ==
    /\ ReturnedFrom("getSimulatedData")
    /\ helper.p1.lat < 0
    /\ helper.p1.lng < 0
    /\ helper.result[1].value.windDirection < 0
    /\ TruncMod(helper.p1.lat, 5 * DegScale) < 0
    /\ TruncMod(helper.p1.lat, 3 * DegScale) < 0

\* ------------------------------------------------------------------------
\* Properties of generatePath, continued
\* ------------------------------------------------------------------------

\* the step appends an interpolated waypoint
InterpolatedAppended ==
    /\ pc = "inner"
    /\ Len(waypoints') = Len(waypoints) + 1

C24_Symmetric ==
    ReturnedFrom("haversineDistance") =>
        /\ helper.result[1].value = haversineDistance(helper.p2, helper.p1)
        /\ helper.p1 = helper.p2 => helper.result[1].value = 0

\* C25: interpolatePoint(a, b, 0) is a and interpolatePoint(a, b, 1) is b,
\* in latitude and in longitude.
C25_Endpoints ==
    ReturnedFrom("interpolatePoint") =>
        /\ helper.t = 0 => helper.result[1].value = helper.p1
        /\ helper.t = TrigScale => helper.result[1].value = helper.p2

\* C26: for the same vertices and wind, the waypoints returned under a
\* ceiling are, timestamps aside, a prefix of the waypoints returned under
\* any ceiling that is not lower and of those returned without a ceiling.
C26_TruncationIsPrefix ==
    (Returned /\ previous # <<>>) =>
        LET first == previous[1].waypoints
        IN /\ Len(first) <= Len(waypoints)
           /\ \A k \in 1..Len(first) :
                  Untimed(first[k]) = Untimed(waypoints[k])

\* a path cut off after some legs has been extended by a call with a higher
\* ceiling that was cut off as well
C26_Witness ==
    /\ Returned
    /\ previous # <<>>
    /\ previous[1].batteryDepleted
    /\ batteryDepleted
    /\ Len(previous[1].waypoints) >= 2
    /\ Len(previous[1].waypoints) < Len(waypoints)

\* the positions of the 'initial' waypoints, in the order of the list
InitialPath ==
    [s \in 1..Cardinality(InitialPositions) |->
        Position(waypoints[NthInitial(s)])]

\* C27: on return from a call with two or more vertices, batteryDepleted is
\* false exactly if the 'initial' waypoints are the input vertices, in
\* order, the last waypoint being the last vertex; if it is true they are
\* the first vertices, fewer than all; without a ceiling it is false.
C27_DepletedIffVertexMissing ==
    (Returned /\ Len(initialPoints) >= 2) =>
        /\ ~batteryDepleted <=>
              /\ InitialPath = initialPoints
              /\ Last(waypoints).type = "initial"
              /\ Position(Last(waypoints)) = Last(initialPoints)
        /\ batteryDepleted =>
              /\ Len(InitialPath) < Len(initialPoints)
              /\ InitialPath = SubSeq(initialPoints, 1, Len(InitialPath))
        /\ maxFlightTimeMinutes = NULL => ~batteryDepleted

\* a call with three vertices has returned depleted after the second vertex
C27_Witness ==
    /\ Returned
    /\ Len(initialPoints) = 3
    /\ batteryDepleted
    /\ Len(InitialPath) = 2
    /\ Last(waypoints).type = "interpolated"

\* C28: with useCustomWind every waypoint, the 'initial' ones included,
\* carries the operator's wind speed and direction, the wind by which the
\* leg reaching it was timed.
C28_OperatorWindEverywhere ==
    useCustomWind =>
        \A k \in 1..Len(waypoints) :
            /\ waypoints[k].windSpeed = playgroundWindSpeed
            /\ waypoints[k].windDirection = playgroundWindDirection

\* ------------------------------------------------------------------------
\* Properties of the MapVisualizer component
\* ------------------------------------------------------------------------

\* C21: startVisualization with fewer than two points only sets the error
\* message: no path is generated, the waypoint, ideal-path and playback
\* state keeps its value, and no timeout is set or cleared.
C21_TooFewPointsOnlySetsError ==
    [][(Len(initialPoints) < 2 /\ StartVisualization) =>
          /\ error' = "Need at least 2 points to start visualization."
          /\ UNCHANGED <<allWaypoints, staticSimulatedPath, idealWaypoints,
                         visualizedPoints, currentPoint, totalPoints,
                         pathFor2DAnimation, timeoutRef, timers,
                         isLoading, initialPoints>>]_vars

\* startVisualization has refused a list of one point while the timeout
\* of an earlier playback was pending
C21_Witness ==
    /\ error = "Need at least 2 points to start visualization."
    /\ Len(initialPoints) = 1
    /\ timers # {}

\* a playback was started and the paths have not been reset since
Playing == totalPoints > 0

\* the playback has run to its end
PlaybackComplete ==
    /\ timers = {}
    /\ currentPoint = NULL
    /\ visualizedPoints = pathFor2DAnimation

\* between two ticks the points up to the current index are shown
ShowsPrefix ==
    \A tm \in timers :
       /\ tm.path = pathFor2DAnimation
       /\ tm.index \in 1..Len(pathFor2DAnimation)
       /\ currentPoint = tm.index - 1
       /\ visualizedPoints = SubSeq(pathFor2DAnimation, 1, tm.index)

\* a tick that is not the last one moves the index by one
AdvancesByOne ==
    (TimerFires /\ timers' # {}) =>
        /\ currentPoint' = currentPoint + 1
        /\ \A tm \in timers, next \in timers' : next.index = tm.index + 1

\* C29: a playback whose paths are not reset shows, between ticks, the
\* prefix of the path up to currentPoint, each tick moves the index by one,
\* and the playback ends with currentPoint null and the whole path shown;
\* at most one timeout is pending at any time, also after a restart.
C29_PlaybackCompletes ==
    /\ [](Cardinality(timers) <= 1)
    /\ [](Playing => (ShowsPrefix /\ (timers = {} => PlaybackComplete)))
    /\ [][Playing => AdvancesByOne]_vars
    /\ (Playing ~> (PlaybackComplete \/ ~Playing))

\* a playback of the seven playground waypoints, restarted at least once,
\* has run to its end
C29_Witness ==
    /\ Playing
    /\ PlaybackComplete
    /\ usePlaygroundWind
    /\ Len(visualizedPoints) = 7
    /\ visualizedPoints # allWaypoints
    /\ userActions >= 3

\* C30: once the paths have been reset during a playback, the playback
\* state stays cleared: no timeout callback of the discarded playback
\* shows points again or sets currentPoint.
C30_ResetStaysCleared ==
    [][(~Playing /\ TimerFires) =>
          /\ visualizedPoints' = <<>>
          /\ currentPoint' = NULL]_vars

====
